---- MODULE Spec2Model ----
(***************************************************************************)
(* Host side of the custom-component protocol: one ComponentInstance       *)
(* (components/widgets/CustomComponent/ComponentInstance.tsx) talking to   *)
(* its guest iframe and to the WidgetStateManager (lib/                    *)
(* WidgetStateManager.ts).                                                 *)
(***************************************************************************)
EXTENDS Integers, Sequences, FiniteSets, TLC

\* ------------------------------------------------------------------------
\* Bounds of the model
\* ------------------------------------------------------------------------
\* Longest recorded history of postMessage calls to the guest iframe.
MaxPosts == 3
\* Longest recorded history of sendRerunBackMsg calls.
MaxReruns == 2
\* Largest number of render() invocations that is counted.
MaxRenders == 4
\* Longest recorded history of sendRerunBackMsg calls when the store is
\* exercised with every value variant.
MaxStoreReruns == 1
MaxWrapperRenders == 4
MaxParentPosts == 2
MaxEvents == 3
MaxCount == 2

\* ------------------------------------------------------------------------
\* JavaScript values
\* ------------------------------------------------------------------------
Undefined == [t |-> "undefined"]
JsBool(b) == [t |-> "boolean", v |-> b]
JsNum(n) == [t |-> "number", v |-> n]
JsStr(s) == [t |-> "string", v |-> s]
JsObj(o) == [t |-> "object", v |-> o]
typeof(x) == x.t

\* The object without own properties, {}.
EmptyObj == [n \in {} |-> Undefined]

\* The API version the tests send with a well-formed COMPONENT_READY.
CUSTOM_COMPONENT_API_VERSION == 1

\* ComponentBackMsgType
COMPONENT_READY == "componentReady"
SET_WIDGET_VALUE == "setWidgetValue"
SET_FRAME_HEIGHT == "setFrameHeight"
\* A type of the newer protocol that this ComponentBackMsgType does not list.
SET_COMPONENT_VALUE == "setComponentValue"
\* ComponentForwardMsgType
RENDER == "render"

\* ------------------------------------------------------------------------
\* Inputs
\* ------------------------------------------------------------------------
\* props.element.get("id") of the instance, and the id of some other widget.
WidgetId == "mock_widget_id"
OtherId == "other_widget"

\* Parsed argsJson: 0 stands for {}, k > 0 for {foo: k}.
EmptyArgs == 0
\* argsDataframe.toJS(): 0 stands for [], 1 for a list of one dataframe.
EmptyDfs == 0

\* The props a parent hands to the instance: element args, dataframes, and
\* the disabled flag.
PropsSet ==
  { [args |-> EmptyArgs, dfs |-> EmptyDfs, disabled |-> FALSE],
    [args |-> 1, dfs |-> EmptyDfs, disabled |-> FALSE],
    [args |-> 2, dfs |-> 1, disabled |-> TRUE],
    [args |-> 1, dfs |-> 1, disabled |-> TRUE] }

\* Values a guest may put in the "value" field.
GuestValues ==
  { JsBool(TRUE), JsNum(5), JsStr("a"), JsObj("{foo:1}") }

Heights == { 50, 100 }

\* The `data` argument of onBackMsg.
ReadyData ==
  { [apiVersion |-> JsNum(CUSTOM_COMPONENT_API_VERSION)],
    [apiVersion |-> JsNum(CUSTOM_COMPONENT_API_VERSION + 1)] }
ValueData == { [value |-> x] : x \in GuestValues }
ComponentValueData == { [dataType |-> JsStr("json"), value |-> JsObj("{foo:1}")] }
HeightData == { [height |-> JsNum(h)] : h \in Heights }

BackMsgs ==
  { <<COMPONENT_READY, d>> : d \in ReadyData }
    \cup { <<SET_WIDGET_VALUE, d>> : d \in ValueData \cup {EmptyObj} }
    \cup { <<SET_COMPONENT_VALUE, d>> : d \in ComponentValueData }
    \cup { <<SET_FRAME_HEIGHT, d>> : d \in HeightData \cup {EmptyObj} }
    \cup { <<"bogus", EmptyObj>> }

\* ------------------------------------------------------------------------
\* State
\* ------------------------------------------------------------------------
VARIABLES
  phase,             \* "constructed", "mounted" or "unmounted"
  props,             \* this.props: element args/dfs and disabled
  iframeRef,         \* TRUE when iframeRef.current and its contentWindow exist
  listener,          \* TRUE when onBackMsg is registered with the registry
  componentReady,    \* ComponentInstance.componentReady
  pendingRenderArgs, \* ComponentInstance.pendingRenderArgs
  pendingRenderDfs,  \* ComponentInstance.pendingRenderDfs
  frameHeight,       \* this.state.frameHeight
  widgetStates,      \* WidgetStateManager.widgetStates, in Map order
  posted,            \* messages posted to the iframe's contentWindow
  rerunMsgs,         \* WidgetStates handed to sendRerunBackMsg
  renderCount,       \* number of render() invocations
  lastOp,            \* the operation that produced this state, and its input
  lastLog,           \* what the last operation logged ("" for nothing)
  blockProps,        \* the props of a Block
  isFullScreen,      \* FullScreenWrapper.isFullScreen
  blockOut,          \* what the last render of the Block produced
  wrapperPhase,      \* PluginWrapper: "constructed", "mounted" or "unmounted"
  wrapperListener,   \* TRUE when onMessageEvent listens on the window
  readyForFirstRender, \* PluginWrapper.state.readyForFirstRender
  renderArgs,        \* PluginWrapper.state.renderArgs
  renderDisabled,    \* PluginWrapper.state.renderDisabled
  pluginError,       \* PluginWrapper.state.pluginError, as a boolean
  wrapperRenders,    \* number of render() invocations of the PluginWrapper
  parentPosted,      \* messages posted to window.parent
  IS_SHARED_REPORT,  \* baseconsts.IS_SHARED_REPORT
  IS_DEV_ENV,        \* baseconsts.IS_DEV_ENV
  initialized,       \* MetricsManager.initialized
  actuallySendMetrics, \* MetricsManager.actuallySendMetrics
  pendingEvents,     \* MetricsManager.pendingEvents
  pendingDeltaCounter, \* MetricsManager.pendingDeltaCounter
  pendingCustomComponentCounter, \* MetricsManager.pendingCustomComponentCounter
  tracked            \* events handed to analytics.track

vars ==
  << phase, props, iframeRef, listener, componentReady, pendingRenderArgs,
     pendingRenderDfs, frameHeight, widgetStates, posted, rerunMsgs,
     renderCount, lastOp, lastLog, blockProps, isFullScreen, blockOut,
     wrapperPhase, wrapperListener, readyForFirstRender, renderArgs,
     renderDisabled, pluginError, wrapperRenders, parentPosted,
     IS_SHARED_REPORT, IS_DEV_ENV, initialized, actuallySendMetrics,
     pendingEvents, pendingDeltaCounter, pendingCustomComponentCounter,
     tracked >>

blockVars == << blockProps, isFullScreen, blockOut >>

wrapperVars ==
  << wrapperPhase, wrapperListener, readyForFirstRender, renderArgs,
     renderDisabled, pluginError, wrapperRenders, parentPosted >>

metricsVars ==
  << IS_SHARED_REPORT, IS_DEV_ENV, initialized, actuallySendMetrics,
     pendingEvents, pendingDeltaCounter, pendingCustomComponentCounter,
     tracked >>

\* Everything outside the ComponentInstance and the WidgetStateManager.
otherVars == << blockVars, wrapperVars, metricsVars >>

instVars == << componentReady, pendingRenderArgs, pendingRenderDfs, frameHeight >>

\* ------------------------------------------------------------------------
\* WidgetStateManager
\* ------------------------------------------------------------------------
HasId(m, id) == \E i \in 1..Len(m) : m[i].id = id

\* A WidgetState proto: the id, the populated oneof field and its content.
WidgetState(id, field, x) == [id |-> id, value |-> field, v |-> x]

\* createWidgetStateProto that leaves an entry that is already there alone.
createWidgetStateProto_keepsExisting(m, id, field, x) ==
  IF HasId(m, id) THEN m ELSE Append(m, WidgetState(id, field, x))

\* createWidgetStateProto that removes the old entry and adds the new one at
\* the end.
createWidgetStateProto_movesToEnd(m, id, field, x) ==
  Append(SelectSeq(m, LAMBDA e : e.id # id), WidgetState(id, field, x))

\* createWidgetStateProto that adds an entry without replacing the old one.
createWidgetStateProto_appends(m, id, field, x) ==
  Append(m, WidgetState(id, field, x))

\* createWidgetStateProto that starts a new Map for the new entry.
createWidgetStateProto_clearsStore(m, id, field, x) ==
  << WidgetState(id, field, x) >>

\* createWidgetStateProto(id) followed by the assignment of one oneof field:
\* Map.set keeps the position of a key that is already present.
createWidgetStateProto(m, id, field, x) ==
  IF HasId(m, id)
    THEN [i \in 1..Len(m) |->
            IF m[i].id = id THEN WidgetState(id, field, x) ELSE m[i]]
    ELSE Append(m, WidgetState(id, field, x))

getWidgetStateProto(m, id) ==
  IF HasId(m, id)
    THEN m[CHOOSE i \in 1..Len(m) : m[i].id = id]
    ELSE Undefined

\* createWidgetStatesMsg: the stored protos in Map iteration order.
createWidgetStatesMsg(m) == m

\* sendUpdateWidgetsMessage, applied to the store m and the sent history r.
sendUpdateWidgetsMessage(m, r) == Append(r, createWidgetStatesMsg(m))

\* maybeSendUpdateWidgetsMessage that does not look at the source.
maybeSendUpdateWidgetsMessage_ignoresSource(m, r, source) ==
  sendUpdateWidgetsMessage(m, r)

maybeSendUpdateWidgetsMessage(m, r, source) ==
  IF source.fromUi THEN sendUpdateWidgetsMessage(m, r) ELSE r

\* set<Field>Value(widgetId, value, source) as an action on the store.
setValue(id, field, x, source) ==
  /\ widgetStates' = createWidgetStateProto(widgetStates, id, field, x)
  /\ rerunMsgs' = maybeSendUpdateWidgetsMessage(widgetStates', rerunMsgs, source)

setBoolValue(id, x, source) == setValue(id, "boolValue", x, source)
setFloatValue(id, x, source) == setValue(id, "floatValue", x, source)
setStringValue(id, x, source) == setValue(id, "stringValue", x, source)
setIntValue(id, x, source) == setValue(id, "intValue", x, source)
setArrowValue(id, x, source) == setValue(id, "arrowValue", x, source)
setBytesValue(id, x, source) == setValue(id, "bytesValue", x, source)

\* A JavaScript array, given by the sequence of its elements.
JsArr(s) == [t |-> "object", a |-> s]

\* StringArray.fromObject({ data: value }) and
\* FloatArray/IntArray.fromObject({ value }).
StringArray(x) == [data |-> x.a]
FloatArray(x) == [value |-> x.a]
IntArray(x) == [value |-> x.a]

setStringArrayValue(id, x, source) ==
  setValue(id, "stringArrayValue", StringArray(x), source)
setFloatArrayValue(id, x, source) ==
  setValue(id, "floatArrayValue", FloatArray(x), source)
setIntArrayValue(id, x, source) ==
  setValue(id, "intArrayValue", IntArray(x), source)

\* JSON.stringify of a boolean, a string, or an object that is given by its
\* JSON text.
JSONstringify(x) ==
  CASE typeof(x) = "boolean" -> JsStr(IF x.v THEN "true" ELSE "false")
    [] typeof(x) = "string" -> JsStr("\"" \o x.v \o "\"")
    [] OTHER -> JsStr(x.v)

setJsonValue(id, x, source) ==
  setValue(id, "jsonValue", JSONstringify(x), source)

\* requireNumber: a Long makes it throw.
Thrown == [t |-> "thrown"]
requireNumber(x) == IF typeof(x) = "number" THEN x ELSE Thrown

\* The getters, applied to the store m.
getBoolValue(m, id) ==
  LET state == getWidgetStateProto(m, id) IN
  IF state # Undefined /\ state.value = "boolValue" THEN state.v ELSE Undefined

getIntValue(m, id) ==
  LET state == getWidgetStateProto(m, id) IN
  IF state # Undefined /\ state.value = "intValue"
    THEN requireNumber(state.v) ELSE Undefined

\* getFloatValue without the check of the populated oneof field.
getFloatValue_noFieldCheck(m, id) ==
  LET state == getWidgetStateProto(m, id) IN
  IF state # Undefined THEN state.v ELSE Undefined

getFloatValue(m, id) ==
  LET state == getWidgetStateProto(m, id) IN
  IF state # Undefined /\ state.value = "floatValue" THEN state.v ELSE Undefined

getStringValue(m, id) ==
  LET state == getWidgetStateProto(m, id) IN
  IF state # Undefined /\ state.value = "stringValue" THEN state.v ELSE Undefined

getStringArrayValue(m, id) ==
  LET state == getWidgetStateProto(m, id) IN
  IF state # Undefined /\ state.value = "stringArrayValue"
    THEN JsArr(state.v.data) ELSE Undefined

getFloatArrayValue(m, id) ==
  LET state == getWidgetStateProto(m, id) IN
  IF state # Undefined /\ state.value = "floatArrayValue"
    THEN JsArr(state.v.value) ELSE Undefined

getIntArrayValue(m, id) ==
  LET state == getWidgetStateProto(m, id) IN
  IF state # Undefined /\ state.value = "intArrayValue"
    THEN IF \A i \in 1..Len(state.v.value) :
              requireNumber(state.v.value[i]) # Thrown
           THEN JsArr(state.v.value) ELSE Thrown
    ELSE Undefined

getJsonValue(m, id) ==
  LET state == getWidgetStateProto(m, id) IN
  IF state # Undefined /\ state.value = "jsonValue" THEN state.v ELSE Undefined

getArrowValue(m, id) ==
  LET state == getWidgetStateProto(m, id) IN
  IF state # Undefined /\ state.value = "arrowValue" THEN state.v ELSE Undefined

getBytesValue(m, id) ==
  LET state == getWidgetStateProto(m, id) IN
  IF state # Undefined /\ state.value = "bytesValue" THEN state.v ELSE Undefined

\* The getter of one oneof field.
getValue(field, m, id) ==
  CASE field = "boolValue" -> getBoolValue(m, id)
    [] field = "intValue" -> getIntValue(m, id)
    [] field = "floatValue" -> getFloatValue(m, id)
    [] field = "stringValue" -> getStringValue(m, id)
    [] field = "stringArrayValue" -> getStringArrayValue(m, id)
    [] field = "floatArrayValue" -> getFloatArrayValue(m, id)
    [] field = "intArrayValue" -> getIntArrayValue(m, id)
    [] field = "jsonValue" -> getJsonValue(m, id)
    [] field = "arrowValue" -> getArrowValue(m, id)
    [] field = "bytesValue" -> getBytesValue(m, id)

\* The setter of one oneof field.
setField(field, id, x, source) ==
  CASE field = "boolValue" -> setBoolValue(id, x, source)
    [] field = "intValue" -> setIntValue(id, x, source)
    [] field = "floatValue" -> setFloatValue(id, x, source)
    [] field = "stringValue" -> setStringValue(id, x, source)
    [] field = "stringArrayValue" -> setStringArrayValue(id, x, source)
    [] field = "floatArrayValue" -> setFloatArrayValue(id, x, source)
    [] field = "intArrayValue" -> setIntArrayValue(id, x, source)
    [] field = "jsonValue" -> setJsonValue(id, x, source)
    [] field = "arrowValue" -> setArrowValue(id, x, source)
    [] field = "bytesValue" -> setBytesValue(id, x, source)

deleteWidgetStateProto(m, id) == SelectSeq(m, LAMBDA e : e.id # id)

\* setTriggerValue that leaves the trigger in the store.
setTriggerValue_keepsEntry(id, source) ==
  LET set == createWidgetStateProto(widgetStates, id, "triggerValue", JsBool(TRUE)) IN
  /\ rerunMsgs' = maybeSendUpdateWidgetsMessage(set, rerunMsgs, source)
  /\ widgetStates' = set

\* setTriggerValue: set, send, delete.
setTriggerValue(id, source) ==
  LET set == createWidgetStateProto(widgetStates, id, "triggerValue", JsBool(TRUE)) IN
  /\ rerunMsgs' = maybeSendUpdateWidgetsMessage(set, rerunMsgs, source)
  /\ widgetStates' = deleteWidgetStateProto(set, id)

\* A loop that steps over the entry following a deleted one.
RECURSIVE cleanFrom_skipsAfterDelete(_, _, _)
cleanFrom_skipsAfterDelete(m, i, active_ids) ==
  IF i > Len(m) THEN m
  ELSE IF m[i].id \notin active_ids
    THEN cleanFrom_skipsAfterDelete(deleteWidgetStateProto(m, m[i].id),
                                    i + 1, active_ids)
    ELSE cleanFrom_skipsAfterDelete(m, i + 1, active_ids)

\* clean: widgetStates.forEach deleting the keys that are not active; the
\* entry after a deleted one moves into its place.
RECURSIVE cleanFrom(_, _, _)
cleanFrom(m, i, active_ids) ==
  IF i > Len(m) THEN m
  ELSE IF m[i].id \notin active_ids
    THEN cleanFrom(deleteWidgetStateProto(m, m[i].id), i, active_ids)
    ELSE cleanFrom(m, i + 1, active_ids)

clean(m, active_ids) == cleanFrom(m, 1, active_ids)

\* isEmpty that takes a store of one entry for empty.
isEmpty_offByOne(m) == Len(m) <= 1

isEmpty(m) == Len(m) = 0

\* ------------------------------------------------------------------------
\* ComponentInstance
\* ------------------------------------------------------------------------
tryGetValue(obj, name) ==
  IF name \in DOMAIN obj THEN obj[name] ELSE Undefined

\* sendForwardMsg(type, data): the history of posts after the call.
sendForwardMsg(type, data) ==
  IF iframeRef
    THEN Append(posted, data @@ [isStreamlitMessage |-> TRUE, type |-> type])
    ELSE posted

\* render() that posts whether or not the guest is ready.
render_postsBeforeReady(p) ==
  /\ renderCount' = renderCount + 1
  /\ posted' = sendForwardMsg(RENDER,
       [args |-> p.args, dfs |-> p.dfs, disabled |-> p.disabled])
  /\ IF componentReady
       THEN UNCHANGED << pendingRenderArgs, pendingRenderDfs >>
       ELSE /\ pendingRenderArgs' = p.args
            /\ pendingRenderDfs' = p.dfs

\* render() that forgets to save the payload while the guest is not ready.
render_doesNotBuffer(p) ==
  /\ renderCount' = renderCount + 1
  /\ IF componentReady
       THEN posted' = sendForwardMsg(RENDER,
              [args |-> p.args, dfs |-> p.dfs, disabled |-> p.disabled])
       ELSE UNCHANGED posted
  /\ UNCHANGED << pendingRenderArgs, pendingRenderDfs >>

\* render() that posts the buffered payload instead of the new one.
render_postsPending(p) ==
  /\ renderCount' = renderCount + 1
  /\ IF componentReady
       THEN /\ posted' = sendForwardMsg(RENDER,
                 [args |-> pendingRenderArgs, dfs |-> pendingRenderDfs,
                  disabled |-> p.disabled])
            /\ UNCHANGED << pendingRenderArgs, pendingRenderDfs >>
       ELSE /\ pendingRenderArgs' = p.args
            /\ pendingRenderDfs' = p.dfs
            /\ UNCHANGED posted

\* render() with the props p.
render(p) ==
  /\ renderCount' = renderCount + 1
  /\ IF componentReady
       THEN /\ posted' = sendForwardMsg(RENDER,
                 [args |-> p.args, dfs |-> p.dfs, disabled |-> p.disabled])
            /\ UNCHANGED << pendingRenderArgs, pendingRenderDfs >>
       ELSE /\ pendingRenderArgs' = p.args
            /\ pendingRenderDfs' = p.dfs
            /\ UNCHANGED posted

\* handleSetWidgetValue that stores a value of any other type as its string.
handleSetWidgetValue_storesAnyAsString(data, source) ==
  LET value == tryGetValue(data, "value") IN
  IF value = Undefined
    THEN /\ lastLog' = "handleSetWidgetValue: missing 'value' prop"
         /\ UNCHANGED << widgetStates, rerunMsgs >>
    ELSE IF typeof(value) = "boolean"
      THEN setBoolValue(WidgetId, value, source) /\ lastLog' = ""
    ELSE IF typeof(value) = "number"
      THEN setFloatValue(WidgetId, value, source) /\ lastLog' = ""
    ELSE setStringValue(WidgetId, JsStr("[object Object]"), source)
           /\ lastLog' = ""

handleSetWidgetValue(data, source) ==
  LET value == tryGetValue(data, "value") IN
  IF value = Undefined
    THEN /\ lastLog' = "handleSetWidgetValue: missing 'value' prop"
         /\ UNCHANGED << widgetStates, rerunMsgs >>
    ELSE IF typeof(value) = "boolean"
      THEN setBoolValue(WidgetId, value, source) /\ lastLog' = ""
    ELSE IF typeof(value) = "number"
      THEN setFloatValue(WidgetId, value, source) /\ lastLog' = ""
    ELSE IF typeof(value) = "string"
      THEN setStringValue(WidgetId, value, source) /\ lastLog' = ""
    ELSE /\ lastLog' = "ComponentInstance: unsupported value type!"
         /\ UNCHANGED << widgetStates, rerunMsgs >>

\* handleSetFrameHeight without the check for a missing height.
handleSetFrameHeight_noMissingCheck(data) ==
  LET height == tryGetValue(data, "height") IN
  /\ lastLog' = ""
  /\ frameHeight' = height
  /\ IF height # frameHeight
       THEN render(props)
       ELSE UNCHANGED << posted, renderCount,
                         pendingRenderArgs, pendingRenderDfs >>

\* setState({ frameHeight: height }) of a PureComponent renders again when
\* the new state differs from the old one.
handleSetFrameHeight(data) ==
  LET height == tryGetValue(data, "height") IN
  IF height = Undefined
    THEN /\ lastLog' = "handleSetFrameHeight: missing 'height' prop"
         /\ UNCHANGED << frameHeight, posted, renderCount,
                         pendingRenderArgs, pendingRenderDfs >>
    ELSE /\ lastLog' = ""
         /\ frameHeight' = height
         /\ IF height # frameHeight
              THEN render(props)
              ELSE UNCHANGED << posted, renderCount,
                                pendingRenderArgs, pendingRenderDfs >>

\* The COMPONENT_READY case that takes a repeated message as a restart of the
\* guest and waits for the next one.
onComponentReady_resetsOnRepeat(data) ==
  /\ IF componentReady
       THEN /\ lastLog' = "Got multiple COMPONENT_READY messages!"
            /\ componentReady' = FALSE
            /\ UNCHANGED posted
       ELSE /\ componentReady' = TRUE
            /\ posted' = sendForwardMsg(RENDER,
                 [args |-> pendingRenderArgs, dfs |-> pendingRenderDfs])
            /\ lastLog' = ""
  /\ UNCHANGED << pendingRenderArgs, pendingRenderDfs, frameHeight,
                  widgetStates, rerunMsgs, renderCount >>

\* case COMPONENT_READY of onBackMsg
onComponentReady(data) ==
  /\ IF componentReady
       THEN /\ lastLog' = "Got multiple COMPONENT_READY messages!"
            /\ UNCHANGED << componentReady, posted >>
       ELSE /\ componentReady' = TRUE
            /\ posted' = sendForwardMsg(RENDER,
                 [args |-> pendingRenderArgs, dfs |-> pendingRenderDfs])
            /\ lastLog' = ""
  /\ UNCHANGED << pendingRenderArgs, pendingRenderDfs, frameHeight,
                  widgetStates, rerunMsgs, renderCount >>

\* The SET_WIDGET_VALUE case without its componentReady check.
onSetWidgetValue_noReadyCheck(data) ==
  /\ handleSetWidgetValue(data, [fromUi |-> TRUE])
  /\ UNCHANGED << componentReady, pendingRenderArgs, pendingRenderDfs,
                  frameHeight, posted, renderCount >>

\* case SET_WIDGET_VALUE of onBackMsg
onSetWidgetValue(data) ==
  /\ IF ~componentReady
       THEN /\ lastLog' = "Got setWidgetValue before componentReady!"
            /\ UNCHANGED << widgetStates, rerunMsgs >>
       ELSE handleSetWidgetValue(data, [fromUi |-> TRUE])
  /\ UNCHANGED << componentReady, pendingRenderArgs, pendingRenderDfs,
                  frameHeight, posted, renderCount >>

\* case SET_FRAME_HEIGHT of onBackMsg
onSetFrameHeight(data) ==
  /\ IF ~componentReady
       THEN /\ lastLog' = "Got setFrameHeight before componentReady!"
            /\ UNCHANGED << frameHeight, posted, renderCount,
                            pendingRenderArgs, pendingRenderDfs >>
       ELSE handleSetFrameHeight(data)
  /\ UNCHANGED << componentReady, widgetStates, rerunMsgs >>

\* default case of onBackMsg
onUnrecognized(type) ==
  /\ lastLog' = "Unrecognized ComponentBackMsgType"
  /\ UNCHANGED << instVars, widgetStates, posted, rerunMsgs, renderCount >>

onBackMsg(type, data) ==
  CASE type = COMPONENT_READY -> onComponentReady(data)
    [] type = SET_WIDGET_VALUE -> onSetWidgetValue(data)
    [] type = SET_FRAME_HEIGHT -> onSetFrameHeight(data)
    [] OTHER -> onUnrecognized(type)

\* ------------------------------------------------------------------------
\* Block
\* ------------------------------------------------------------------------
\* ReportRunState
NOT_RUNNING == "notRunning"
RUNNING == "running"
RERUN_REQUESTED == "rerunRequested"
STOP_REQUESTED == "stopRequested"

\* The type tags that renderElement hands a renderer for.
KnownTypes ==
  { "alert", "audio", "balloons", "bokehChart", "dataFrame",
    "deckGlJsonChart", "docString", "empty", "exception", "graphvizChart",
    "iframe", "imgs", "json", "markdown", "plotlyChart", "progress", "table",
    "text", "vegaLiteChart", "video", "button", "checkbox", "colorPicker",
    "dateInput", "radio", "selectbox", "slider", "fileUploader", "textArea",
    "textInput", "timeInput", "numberInput", "multiselect",
    "componentInstance" }

\* dispatchOneOf(element, "type", funcs): the renderer of the tag, or a throw
\* for a tag that funcs does not list.
dispatchOneOf(type) ==
  IF type \in KnownTypes THEN [t |-> "node", v |-> type] ELSE Thrown

isElementStale_ignoresReportId(p, reportElement) ==
  IF p.reportRunState = RERUN_REQUESTED THEN TRUE
  ELSE IF p.reportRunState = RUNNING
    THEN TRUE
    ELSE FALSE

isElementStale(p, reportElement) ==
  IF p.reportRunState = RERUN_REQUESTED THEN TRUE
  ELSE IF p.reportRunState = RUNNING
    THEN reportElement.reportId # p.reportId
    ELSE FALSE

getClassNames(isStale, isHidden) ==
  { "element-container" }
    \cup (IF isStale /\ ~isFullScreen THEN { "stale-element" } ELSE {})
    \cup (IF isHidden THEN { "stHidden" } ELSE {})

shouldComponentBeEnabled(p, isHidden) ==
  ~isHidden \/ p.reportRunState # RUNNING

isComponentStale(p, enable, reportElement) ==
  ~enable \/ (p.showStaleElementIndicator /\ isElementStale(p, reportElement))

renderElement(element) == dispatchOneOf(element.type)

\* The node of one leaf, or Thrown when renderElement throws: the call is
\* made by the Block itself, before the ErrorBoundary element is created.
renderElementWithErrorBoundary(p, reportElement) ==
  LET component == renderElement(reportElement)
      isHidden == reportElement.type = "empty" \/ reportElement.type = "balloons"
      enable == shouldComponentBeEnabled(p, isHidden)
      isStale == isComponentStale(p, enable, reportElement)
  IN IF component = Thrown THEN Thrown
     ELSE [enable |-> enable,
           className |-> getClassNames(isStale, isHidden),
           component |-> component]

\* renderElements of a vertical Block: one node per leaf, unless the
\* rendering of a leaf throws.
renderElements(p) ==
  LET nodes == [i \in 1..Len(p.elements) |->
                  renderElementWithErrorBoundary(p, p.elements[i])]
  IN IF \E i \in 1..Len(nodes) : nodes[i] = Thrown
       THEN [thrown |-> TRUE, nodes |-> << >>, fullScreen |-> isFullScreen]
       ELSE [thrown |-> FALSE, nodes |-> nodes, fullScreen |-> isFullScreen]

NotRendered == [thrown |-> FALSE, nodes |-> << >>, fullScreen |-> FALSE]
IdleBlockProps ==
  [elements |-> << >>, reportId |-> "", reportRunState |-> NOT_RUNNING,
   showStaleElementIndicator |-> FALSE]

BlockIdle ==
  /\ blockProps = IdleBlockProps
  /\ isFullScreen = FALSE
  /\ blockOut = NotRendered

\* ------------------------------------------------------------------------
\* A horizontal Block and its columns
\* ------------------------------------------------------------------------
minViewportForColumns == 640

Min(a, b) == IF a < b THEN a ELSE b
Max(a, b) == IF a > b THEN a ELSE b

RECURSIVE SumOver(_, _)
SumOver(S, f) ==
  IF S = {} THEN 0
  ELSE LET i == CHOOSE j \in S : TRUE IN f[i] + SumOver(S \ { i }, f)

\* The style of one column. columnPercentage = weight / width is kept as the
\* pair (weight, width); the minWidth rule applies at the viewports of the
\* media query only.
StyledColumn_flexOne(weight, width) ==
  [flex |-> 1, width |-> width, weight |-> weight,
   minWidthOf |-> IF 2 * weight > width THEN "min" ELSE "max"]

StyledColumn(weight, width) ==
  [flex |-> weight, width |-> width, weight |-> weight,
   minWidthOf |-> IF 2 * weight > width THEN "min" ELSE "max"]

\* minWidth of a column, in px, in a container of width T at the given
\* viewport: min or max of (columnPercentage * 100% - gutter) and
\* (columnPercentage * minViewportForColumns px); none above the breakpoint.
minWidth(style, T, viewport, gutter) ==
  LET percent == (style.weight * T) \div style.width - gutter
      fixed == (style.weight * minViewportForColumns) \div style.width
  IN IF viewport > minViewportForColumns THEN 0
     ELSE Max(0, IF style.minWidthOf = "min" THEN Min(percent, fixed)
                 ELSE Max(percent, fixed))

\* The widths that "flex: weight" gives the columns of one line of width T:
\* the free space goes to the columns in proportion to flex; a column whose
\* share is under its minWidth takes its minWidth, and the others share
\* what is left.
RECURSIVE flexWidths(_, _, _, _)
flexWidths(styles, floors, T, frozen) ==
  LET n == Len(styles)
      free == (1..n) \ frozen
      left == T - SumOver(frozen, floors)
      grow == SumOver(free, [i \in 1..n |-> styles[i].flex])
      share == [i \in free |-> (left * styles[i].flex) \div grow]
      under == { i \in free : share[i] < floors[i] }
  IN IF under = {}
       THEN [i \in 1..n |-> IF i \in frozen THEN floors[i] ELSE share[i]]
       ELSE flexWidths(styles, floors, T, frozen \cup under)

\* render of a horizontal Block: one StyledColumn per child, each given
\* totalWeight as its width prop, laid out in a container of width T.
renderHorizontal(p) ==
  LET n == Len(p.weights)
      styles == [i \in 1..n |->
                   StyledColumn(p.weights[i], p.horizontal.totalWeight)]
      floors == [i \in 1..n |->
                   minWidth(styles[i], p.T, p.viewport, p.gutter)]
  IN [styles |-> styles, widths |-> flexWidths(styles, floors, p.T, {})]

\* ------------------------------------------------------------------------
\* PluginWrapper and MetricsManager before anything has happened
\* ------------------------------------------------------------------------
\* renderArgs of the constructor: {}
EmptyRenderArgs == JsObj("{}")

\* The state the constructor of the PluginWrapper sets.
WrapperConstructed ==
  /\ wrapperPhase = "constructed"
  /\ wrapperListener = FALSE
  /\ readyForFirstRender = FALSE
  /\ renderArgs = EmptyRenderArgs
  /\ renderDisabled = FALSE
  /\ pluginError = FALSE
  /\ wrapperRenders = 0
  /\ parentPosted = << >>

WrapperIdle == WrapperConstructed

\* The fields of a new MetricsManager.
MetricsConstructed ==
  /\ initialized = FALSE
  /\ actuallySendMetrics = FALSE
  /\ pendingEvents = << >>
  /\ pendingDeltaCounter = EmptyObj
  /\ pendingCustomComponentCounter = EmptyObj
  /\ tracked = << >>

MetricsIdle ==
  /\ IS_SHARED_REPORT = FALSE
  /\ IS_DEV_ENV = FALSE
  /\ MetricsConstructed

\* ------------------------------------------------------------------------
\* PluginWrapper (guest side)
\* ------------------------------------------------------------------------
PLUGIN_READY == "pluginReady"

JsNull == [t |-> "object", v |-> "null"]

\* render(): the error view, nothing, or the wrapped component and its props.
wrapperRender ==
  IF pluginError THEN [view |-> "pluginError"]
  ELSE IF ~readyForFirstRender THEN [view |-> "null"]
  ELSE [view |-> "WrappedComponent", disabled |-> renderDisabled,
        args |-> renderArgs]

\* sendBackMsg(type, data): the messages posted to the parent after the call.
sendBackMsg(type, data) ==
  Append(parentPosted, data @@ [isStreamlitMessage |-> TRUE, type |-> type])

\* onRenderMessage that keeps the args of the first RENDER.
onRenderMessage_keepsFirstArgs(data) ==
  LET args == IF "args" \in DOMAIN data /\ data.args # JsNull
                THEN data.args ELSE EmptyRenderArgs
      disabled == "disabled" \in DOMAIN data /\ data.disabled = TRUE
  IN /\ readyForFirstRender' = TRUE
     /\ renderArgs' = IF readyForFirstRender THEN renderArgs ELSE args
     /\ renderDisabled' = disabled
     /\ wrapperRenders' = wrapperRenders + 1

\* onRenderMessage(data): args == null holds for null and for undefined;
\* setState with a new args object renders again.
onRenderMessage(data) ==
  LET args == IF "args" \in DOMAIN data /\ data.args # JsNull
                THEN data.args ELSE EmptyRenderArgs
      disabled == "disabled" \in DOMAIN data /\ data.disabled = TRUE
  IN /\ readyForFirstRender' = TRUE
     /\ renderArgs' = args
     /\ renderDisabled' = disabled
     /\ wrapperRenders' = wrapperRenders + 1

\* onMessageEvent(event), with data = event.data
onMessageEvent(data) ==
  IF "isStreamlitMessage" \notin DOMAIN data
    THEN UNCHANGED << readyForFirstRender, renderArgs, renderDisabled,
                      wrapperRenders >>
    ELSE IF "type" \in DOMAIN data /\ data.type = RENDER
      THEN onRenderMessage(data)
      ELSE UNCHANGED << readyForFirstRender, renderArgs, renderDisabled,
                        wrapperRenders >>

\* ------------------------------------------------------------------------
\* MetricsManager
\* ------------------------------------------------------------------------
\* send(evName, evData): what analytics.track has been given after the call;
\* in dev mode the event is logged and not tracked.
send(t, evName, evData) ==
  IF IS_DEV_ENV THEN t
  ELSE Append(t, [evName |-> evName, evData |-> evData,
                  reportHash |-> "Not initialized", dev |-> IS_DEV_ENV,
                  source |-> "browser"])

\* sendPendingEvents: pendingEvents.forEach(send), from the event at index i.
RECURSIVE sendPendingFrom(_, _, _)
sendPendingFrom(t, events, i) ==
  IF i > Len(events) THEN t
  ELSE sendPendingFrom(send(t, events[i][1], events[i][2]), events, i + 1)

sendPendingEvents ==
  /\ tracked' = sendPendingFrom(tracked, pendingEvents, 1)
  /\ pendingEvents' = << >>

\* initialize({ gatherUsageStats })
initialize(gatherUsageStats) ==
  /\ initialized' = TRUE
  /\ actuallySendMetrics' = gatherUsageStats
  /\ IF gatherUsageStats \/ IS_SHARED_REPORT
       THEN sendPendingEvents
       ELSE UNCHANGED << pendingEvents, tracked >>

\* enqueue(evName, evData)
enqueue(evName, evData) ==
  IF ~initialized
    THEN /\ pendingEvents' = Append(pendingEvents, << evName, evData >>)
         /\ UNCHANGED tracked
    ELSE IF ~actuallySendMetrics
      THEN UNCHANGED << pendingEvents, tracked >>
      ELSE /\ tracked' = send(tracked, evName, evData)
           /\ UNCHANGED pendingEvents

\* counter[name]++ with 1 for a name that has no count yet; the body of
\* incrementDeltaCounter and of incrementCustomComponentCounter.
incrementCounter(counter, name) ==
  IF name \in DOMAIN counter
    THEN [counter EXCEPT ![name] = @ + 1]
    ELSE [n \in DOMAIN counter \cup { name } |->
            IF n = name THEN 1 ELSE counter[n]]

\* The count of a name, 0 for a name without count.
countOf(counter, name) ==
  IF name \in DOMAIN counter THEN counter[name] ELSE 0

\* ------------------------------------------------------------------------
\* Operations
\* ------------------------------------------------------------------------
\* Histories are recorded up to their bounds.
Room ==
  /\ Len(posted) < MaxPosts
  /\ Len(rerunMsgs) < MaxReruns
  /\ renderCount < MaxRenders

\* Mounting: the first render() runs before the ref is attached, then
\* componentDidMount registers onBackMsg for the iframe's contentWindow.
Mount ==
  /\ phase = "constructed"
  /\ render(props)
  /\ phase' = "mounted"
  /\ iframeRef' = TRUE
  /\ listener' = TRUE
  /\ lastOp' = [op |-> "mount", type |-> "", data |-> EmptyObj]
  /\ lastLog' = ""
  /\ UNCHANGED << props, componentReady, frameHeight, widgetStates, rerunMsgs >>
  /\ UNCHANGED otherVars

\* The parent renders the element again with new props.
Render(p) ==
  /\ phase = "mounted"
  /\ Room
  /\ props' = p
  /\ render(p)
  /\ lastOp' = [op |-> "render", type |-> "", data |-> EmptyObj]
  /\ lastLog' = ""
  /\ UNCHANGED << phase, iframeRef, listener, componentReady, frameHeight,
                  widgetStates, rerunMsgs >>
  /\ UNCHANGED otherVars

\* The registry delivers a message of the guest window to the listener.
BackMsg(type, data) ==
  /\ listener
  /\ Room
  /\ onBackMsg(type, data)
  /\ lastOp' = [op |-> "onBackMsg", type |-> type, data |-> data]
  /\ UNCHANGED << phase, props, iframeRef, listener >>
  /\ UNCHANGED otherVars

\* Messages of the guest that a listener would act on.
LateMsgs ==
  { <<COMPONENT_READY, [apiVersion |-> JsNum(CUSTOM_COMPONENT_API_VERSION)]>>,
    <<SET_WIDGET_VALUE, [value |-> JsNum(5)]>>,
    <<SET_FRAME_HEIGHT, [height |-> JsNum(100)]>> }

\* The guest window posts a message while no listener is registered for it:
\* the registry finds no dispatcher and drops the message.
StrayMsg(type, data) ==
  /\ phase = "unmounted"
  /\ ~listener
  /\ lastOp' = [op |-> "noListener", type |-> type, data |-> data]
  /\ lastLog' = ""
  /\ UNCHANGED << phase, props, iframeRef, listener, instVars, widgetStates,
                  posted, rerunMsgs, renderCount >>
  /\ UNCHANGED otherVars

Unmount_keepsListener ==
  /\ phase = "mounted"
  /\ phase' = "unmounted"
  /\ listener' = listener
  /\ iframeRef' = FALSE
  /\ lastOp' = [op |-> "unmount", type |-> "", data |-> EmptyObj]
  /\ lastLog' = ""
  /\ UNCHANGED << props, instVars, widgetStates, posted, rerunMsgs, renderCount >>
  /\ UNCHANGED otherVars

\* componentWillUnmount deregisters the listener; React then clears the ref.
Unmount ==
  /\ phase = "mounted"
  /\ phase' = "unmounted"
  /\ listener' = FALSE
  /\ iframeRef' = FALSE
  /\ lastOp' = [op |-> "unmount", type |-> "", data |-> EmptyObj]
  /\ lastLog' = ""
  /\ UNCHANGED << props, instVars, widgetStates, posted, rerunMsgs, renderCount >>
  /\ UNCHANGED otherVars

\* The store before the instance exists: empty, or holding the value of
\* another widget.
InitialStores ==
  { << >>, << WidgetState(OtherId, "stringValue", JsStr("x")) >> }

Init ==
  /\ phase = "constructed"
  /\ props \in PropsSet
  /\ iframeRef = FALSE
  /\ listener = FALSE
  /\ componentReady = FALSE
  /\ pendingRenderArgs = EmptyArgs
  /\ pendingRenderDfs = EmptyDfs
  /\ frameHeight = Undefined
  /\ widgetStates \in InitialStores
  /\ posted = << >>
  /\ rerunMsgs = << >>
  /\ renderCount = 0
  /\ lastOp = [op |-> "init", type |-> "", data |-> EmptyObj]
  /\ lastLog = ""
  /\ BlockIdle
  /\ WrapperIdle
  /\ MetricsIdle

Next ==
  \/ Mount
  \/ \E p \in PropsSet : Render(p)
  \/ \E m \in BackMsgs : BackMsg(m[1], m[2])
  \/ Unmount
  \/ \E m \in LateMsgs : StrayMsg(m[1], m[2])

Spec == Init /\ [][Next]_vars

\* ------------------------------------------------------------------------
\* The WidgetStateManager under the calls of its clients
\* ------------------------------------------------------------------------
Sources == { [fromUi |-> TRUE], [fromUi |-> FALSE] }

\* Setter calls <<widgetId, oneof field, value>>, covering every setter.
StoreCalls ==
  { << WidgetId, "boolValue", JsBool(TRUE) >>,
    << WidgetId, "intValue", JsNum(7) >>,
    << WidgetId, "floatValue", JsNum(5) >>,
    << WidgetId, "stringValue", JsStr("a") >>,
    << WidgetId, "stringArrayValue", JsArr(<< "a", "b" >>) >>,
    << WidgetId, "floatArrayValue", JsArr(<< 1, 2 >>) >>,
    << WidgetId, "intArrayValue", JsArr(<< JsNum(100), JsNum(200) >>) >>,
    << WidgetId, "jsonValue", JsObj("{foo:1}") >>,
    << WidgetId, "jsonValue", JsStr("a") >>,
    << WidgetId, "arrowValue", JsObj("arrow table") >>,
    << WidgetId, "bytesValue", JsObj("bytes 01 02") >>,
    << OtherId, "stringValue", JsStr("x") >> }

\* A few setter calls on two widgets, for the order of the entries.
FlushCalls ==
  { << WidgetId, "boolValue", JsBool(TRUE) >>,
    << WidgetId, "stringValue", JsStr("a") >>,
    << OtherId, "stringValue", JsStr("x") >> }

StoreIds == { WidgetId, OtherId }

compVars ==
  << phase, props, iframeRef, listener, instVars, posted, renderCount,
     otherVars >>

\* A client calls set<Field>Value(id, x, source).
StoreSet(c, source, cap) ==
  /\ source.fromUi => Len(rerunMsgs) < cap
  /\ setField(c[2], c[1], c[3], source)
  /\ lastOp' = [op |-> "set", type |-> c[2],
                data |-> [id |-> c[1], value |-> c[3], fromUi |-> source.fromUi]]
  /\ lastLog' = ""
  /\ UNCHANGED compVars

\* A client calls setTriggerValue(id, source).
StoreTrigger(id, source, cap) ==
  /\ source.fromUi => Len(rerunMsgs) < cap
  /\ setTriggerValue(id, source)
  /\ lastOp' = [op |-> "setTrigger", type |-> "triggerValue",
                data |-> [id |-> id, fromUi |-> source.fromUi]]
  /\ lastLog' = ""
  /\ UNCHANGED compVars

\* clean(active_ids) at the end of a run.
StoreClean(active_ids) ==
  /\ widgetStates' = clean(widgetStates, active_ids)
  /\ lastOp' = [op |-> "clean", type |-> "", data |-> [active |-> active_ids]]
  /\ lastLog' = ""
  /\ UNCHANGED << compVars, rerunMsgs >>

\* A client calls sendUpdateWidgetsMessage().
StoreFlush(cap) ==
  /\ Len(rerunMsgs) < cap
  /\ rerunMsgs' = sendUpdateWidgetsMessage(widgetStates, rerunMsgs)
  /\ lastOp' = [op |-> "flush", type |-> "", data |-> EmptyObj]
  /\ lastLog' = ""
  /\ UNCHANGED << compVars, widgetStates >>

InitStore ==
  /\ phase = "constructed"
  /\ props = [args |-> EmptyArgs, dfs |-> EmptyDfs, disabled |-> FALSE]
  /\ iframeRef = FALSE
  /\ listener = FALSE
  /\ componentReady = FALSE
  /\ pendingRenderArgs = EmptyArgs
  /\ pendingRenderDfs = EmptyDfs
  /\ frameHeight = Undefined
  /\ widgetStates = << >>
  /\ posted = << >>
  /\ rerunMsgs = << >>
  /\ renderCount = 0
  /\ lastOp = [op |-> "init", type |-> "", data |-> EmptyObj]
  /\ lastLog = ""
  /\ BlockIdle
  /\ WrapperIdle
  /\ MetricsIdle

NextStore ==
  \/ \E c \in StoreCalls, source \in Sources : StoreSet(c, source, MaxStoreReruns)
  \/ \E id \in StoreIds, source \in Sources :
       StoreTrigger(id, source, MaxStoreReruns)
  \/ \E a \in SUBSET StoreIds : StoreClean(a)
  \/ StoreFlush(MaxStoreReruns)

SpecStore == InitStore /\ [][NextStore]_vars

NextFlush ==
  \/ \E c \in FlushCalls, source \in Sources : StoreSet(c, source, MaxReruns)
  \/ \E id \in StoreIds, source \in Sources : StoreTrigger(id, source, MaxReruns)
  \/ \E a \in SUBSET StoreIds : StoreClean(a)
  \/ StoreFlush(MaxReruns)

SpecFlush == InitStore /\ [][NextFlush]_vars

\* ------------------------------------------------------------------------
\* A vertical Block under the render instructions of its parent
\* ------------------------------------------------------------------------
ReportIds == { "report1", "report2" }

\* Leaves: shown ones, hidden ones, a custom component, and a tag that the
\* front end does not know.
LeafTypes == { "text", "empty", "componentInstance", "bogusType" }

ReportElements == [type : LeafTypes, reportId : ReportIds]

ElementLists ==
  { << e >> : e \in ReportElements }
    \cup { << e1, e2 >> : e1 \in ReportElements,
                          e2 \in { e \in ReportElements : e.type \in { "text", "bogusType" } } }

BlockPropsSet ==
  [elements : ElementLists, reportId : ReportIds,
   reportRunState : { NOT_RUNNING, RUNNING, RERUN_REQUESTED, STOP_REQUESTED },
   showStaleElementIndicator : BOOLEAN]

hostVars ==
  << phase, props, iframeRef, listener, instVars, posted, renderCount,
     widgetStates, rerunMsgs, lastLog, wrapperVars, metricsVars >>

\* The parent renders the Block with the props p.
BlockRender(p) ==
  /\ blockProps' = p
  /\ blockOut' = renderElements(p)
  /\ lastOp' = [op |-> "blockRender", type |-> "", data |-> EmptyObj]
  /\ UNCHANGED << hostVars, isFullScreen >>

\* An element enters or leaves full screen.
SetFullScreen(b) ==
  /\ isFullScreen # b
  /\ isFullScreen' = b
  /\ lastOp' = [op |-> "fullScreen", type |-> "", data |-> EmptyObj]
  /\ UNCHANGED << hostVars, blockProps, blockOut >>

InitBlock ==
  /\ phase = "constructed"
  /\ props = [args |-> EmptyArgs, dfs |-> EmptyDfs, disabled |-> FALSE]
  /\ iframeRef = FALSE
  /\ listener = FALSE
  /\ componentReady = FALSE
  /\ pendingRenderArgs = EmptyArgs
  /\ pendingRenderDfs = EmptyDfs
  /\ frameHeight = Undefined
  /\ widgetStates = << >>
  /\ posted = << >>
  /\ rerunMsgs = << >>
  /\ renderCount = 0
  /\ lastOp = [op |-> "init", type |-> "", data |-> EmptyObj]
  /\ lastLog = ""
  /\ BlockIdle
  /\ WrapperIdle
  /\ MetricsIdle

NextBlock ==
  \/ \E p \in BlockPropsSet : BlockRender(p)
  \/ \E b \in BOOLEAN : SetFullScreen(b)

SpecBlock == InitBlock /\ [][NextBlock]_vars

\* ------------------------------------------------------------------------
\* A horizontal Block under render instructions and window sizes
\* ------------------------------------------------------------------------
ColumnWeights ==
  { << 1 >>, << 1, 1 >>, << 1, 1, 2 >>, << 1, 3 >>, << 3, 1 >>, << 2, 1 >>,
    << 1, 2, 3 >> }

\* Container width and viewport width: at, under and over the breakpoint.
Widths == { 320, 600, 640, 700, 1000 }
Margins == { 0, 40 }
Gutters == { 0, 16 }

HorizontalProps ==
  { [weights |-> ws,
     horizontal |-> [totalWeight |-> SumOver(DOMAIN ws, ws)],
     T |-> T, viewport |-> T + m, gutter |-> g] :
      ws \in ColumnWeights, T \in Widths, m \in Margins, g \in Gutters }

\* The parent renders the horizontal Block with the columns of p.
RenderHorizontal(p) ==
  /\ blockProps' = p
  /\ blockOut' = renderHorizontal(p)
  /\ lastOp' = [op |-> "renderHorizontal", type |-> "", data |-> EmptyObj]
  /\ UNCHANGED << hostVars, isFullScreen >>

\* The window is resized: the same columns are laid out again.
Resize(T, m) ==
  /\ lastOp.op # "init"
  /\ blockProps' = [blockProps EXCEPT !.T = T, !.viewport = T + m]
  /\ blockOut' = renderHorizontal(blockProps')
  /\ lastOp' = [op |-> "resize", type |-> "", data |-> EmptyObj]
  /\ UNCHANGED << hostVars, isFullScreen >>

NextColumns ==
  \/ \E p \in HorizontalProps : RenderHorizontal(p)
  \/ \E T \in Widths, m \in Margins : Resize(T, m)

SpecColumns == InitBlock /\ [][NextColumns]_vars

\* ------------------------------------------------------------------------
\* The PluginWrapper in its iframe
\* ------------------------------------------------------------------------
WrapperArgs == { JsObj("{a:1}"), JsObj("{a:2}") }

\* event.data of the messages that reach the window of the guest: RENDER
\* messages of the host, with and without args, a message of a type the
\* wrapper does not know, a RENDER whose mark is false, a RENDER without
\* mark, and a message of another sender.
WindowMsgs ==
  { [isStreamlitMessage |-> TRUE, type |-> RENDER, args |-> a, disabled |-> d] :
      a \in WrapperArgs \cup { JsNull }, d \in BOOLEAN }
    \cup { [isStreamlitMessage |-> TRUE, type |-> RENDER],
           [isStreamlitMessage |-> TRUE, type |-> "bogus"],
           [isStreamlitMessage |-> FALSE, type |-> RENDER,
            args |-> JsObj("{a:2}"), disabled |-> TRUE],
           [type |-> RENDER, args |-> JsObj("{a:2}"), disabled |-> TRUE],
           [source |-> "another sender"] }

nonWrapperVars ==
  << phase, props, iframeRef, listener, instVars, posted, renderCount,
     widgetStates, rerunMsgs, lastLog, blockVars, metricsVars >>

\* Mounting: the first render(), then componentDidMount adds the listener and
\* sends PLUGIN_READY.
WrapperMount ==
  /\ wrapperPhase = "constructed"
  /\ wrapperPhase' = "mounted"
  /\ wrapperRenders' = wrapperRenders + 1
  /\ wrapperListener' = TRUE
  /\ parentPosted' = sendBackMsg(PLUGIN_READY, EmptyObj)
  /\ lastOp' = [op |-> "wrapperMount", type |-> "", data |-> EmptyObj]
  /\ UNCHANGED << readyForFirstRender, renderArgs, renderDisabled, pluginError,
                  nonWrapperVars >>

\* A message event of the window reaches the listener.
WindowMessage(data) ==
  /\ wrapperListener
  /\ wrapperRenders < MaxWrapperRenders
  /\ onMessageEvent(data)
  /\ lastOp' = [op |-> "onMessageEvent",
                type |-> IF "type" \in DOMAIN data THEN data.type ELSE "",
                data |-> data]
  /\ UNCHANGED << wrapperPhase, wrapperListener, pluginError, parentPosted,
                  nonWrapperVars >>

\* The wrapped component calls setWidgetValue(value).
WrappedSetsValue(value) ==
  /\ wrapperPhase = "mounted"
  /\ wrapperRender.view = "WrappedComponent"
  /\ Len(parentPosted) < MaxParentPosts
  /\ parentPosted' = sendBackMsg(SET_WIDGET_VALUE, [value |-> value])
  /\ lastOp' = [op |-> "setWidgetValue", type |-> "", data |-> EmptyObj]
  /\ UNCHANGED << wrapperPhase, wrapperListener, readyForFirstRender,
                  renderArgs, renderDisabled, pluginError, wrapperRenders,
                  nonWrapperVars >>

\* The wrapped component throws while it renders: getDerivedStateFromError
\* sets pluginError and the wrapper renders the error.
WrappedThrows ==
  /\ wrapperPhase = "mounted"
  /\ wrapperRender.view = "WrappedComponent"
  /\ wrapperRenders < MaxWrapperRenders
  /\ pluginError' = TRUE
  /\ wrapperRenders' = wrapperRenders + 1
  /\ lastOp' = [op |-> "wrappedThrows", type |-> "", data |-> EmptyObj]
  /\ UNCHANGED << wrapperPhase, wrapperListener, readyForFirstRender,
                  renderArgs, renderDisabled, parentPosted, nonWrapperVars >>

\* componentWillUnmount removes the listener.
WrapperUnmount ==
  /\ wrapperPhase = "mounted"
  /\ wrapperPhase' = "unmounted"
  /\ wrapperListener' = FALSE
  /\ lastOp' = [op |-> "wrapperUnmount", type |-> "", data |-> EmptyObj]
  /\ UNCHANGED << readyForFirstRender, renderArgs, renderDisabled, pluginError,
                  wrapperRenders, parentPosted, nonWrapperVars >>

\* The host side before anything has happened.
HostIdle ==
  /\ phase = "constructed"
  /\ props = [args |-> EmptyArgs, dfs |-> EmptyDfs, disabled |-> FALSE]
  /\ iframeRef = FALSE
  /\ listener = FALSE
  /\ componentReady = FALSE
  /\ pendingRenderArgs = EmptyArgs
  /\ pendingRenderDfs = EmptyDfs
  /\ frameHeight = Undefined
  /\ widgetStates = << >>
  /\ posted = << >>
  /\ rerunMsgs = << >>
  /\ renderCount = 0
  /\ lastOp = [op |-> "init", type |-> "", data |-> EmptyObj]
  /\ lastLog = ""
  /\ BlockIdle

InitWrapper ==
  /\ HostIdle
  /\ WrapperConstructed
  /\ MetricsIdle

NextWrapper ==
  \/ WrapperMount
  \/ \E data \in WindowMsgs : WindowMessage(data)
  \/ \E v \in { JsNum(5) } : WrappedSetsValue(v)
  \/ WrappedThrows
  \/ WrapperUnmount

SpecWrapper == InitWrapper /\ [][NextWrapper]_vars

\* ------------------------------------------------------------------------
\* The MetricsManager and its events
\* ------------------------------------------------------------------------
Events == { << "viewReport", "{}" >>, << "updateReport", "{numElements:2}" >> }

nonMetricsVars ==
  << phase, props, iframeRef, listener, instVars, posted, renderCount,
     widgetStates, rerunMsgs, lastLog, blockVars, wrapperVars >>

\* A client calls MetricsManager.current.initialize({ gatherUsageStats }).
Initialize(gatherUsageStats) ==
  /\ initialize(gatherUsageStats)
  /\ lastOp' = [op |-> "initialize", type |-> "",
                data |-> [gatherUsageStats |-> gatherUsageStats]]
  /\ UNCHANGED << IS_SHARED_REPORT, IS_DEV_ENV, pendingDeltaCounter,
                  pendingCustomComponentCounter, nonMetricsVars >>

\* A client calls MetricsManager.current.enqueue(evName, evData).
Enqueue(ev) ==
  /\ Len(pendingEvents) + Len(tracked) < MaxEvents
  /\ enqueue(ev[1], ev[2])
  /\ lastOp' = [op |-> "enqueue", type |-> ev[1], data |-> [evData |-> ev[2]]]
  /\ UNCHANGED << IS_SHARED_REPORT, IS_DEV_ENV, initialized,
                  actuallySendMetrics, pendingDeltaCounter,
                  pendingCustomComponentCounter, nonMetricsVars >>

\* The build is a shared report or not, a dev build or not.
InitEvents ==
  /\ HostIdle
  /\ WrapperIdle
  /\ IS_SHARED_REPORT \in BOOLEAN
  /\ IS_DEV_ENV \in BOOLEAN
  /\ MetricsConstructed

NextEvents ==
  \/ \E g \in BOOLEAN : Initialize(g)
  \/ \E ev \in Events : Enqueue(ev)

SpecEvents == InitEvents /\ [][NextEvents]_vars

\* ------------------------------------------------------------------------
\* The usage counters of the MetricsManager and the Block that renders
\* ------------------------------------------------------------------------
DeltaTypes == { "text", "componentInstance" }
CustomInstanceNames == { "my_component" }

\* Blocks of one or two leaves in a report that is not running.
CountedBlockProps ==
  { p \in BlockPropsSet :
      /\ p.reportRunState = NOT_RUNNING
      /\ p.reportId = "report1"
      /\ ~p.showStaleElementIndicator
      /\ \A i \in 1..Len(p.elements) :
           /\ p.elements[i].type \in DeltaTypes
           /\ p.elements[i].reportId = "report1" }

counterOtherVars ==
  << phase, props, iframeRef, listener, instVars, posted, renderCount,
     widgetStates, rerunMsgs, lastLog, blockVars, wrapperVars,
     IS_SHARED_REPORT, IS_DEV_ENV, initialized, actuallySendMetrics,
     pendingEvents, tracked >>

\* A client calls incrementDeltaCounter(deltaType).
IncrementDeltaCounter(deltaType) ==
  /\ countOf(pendingDeltaCounter, deltaType) < MaxCount
  /\ pendingDeltaCounter' = incrementCounter(pendingDeltaCounter, deltaType)
  /\ lastOp' = [op |-> "incrementDeltaCounter", type |-> deltaType,
                data |-> EmptyObj]
  /\ UNCHANGED << pendingCustomComponentCounter, counterOtherVars >>

\* A client calls getAndResetDeltaCounter(); data is what it returns.
GetAndResetDeltaCounter ==
  /\ pendingDeltaCounter' = EmptyObj
  /\ lastOp' = [op |-> "getAndResetDeltaCounter", type |-> "",
                data |-> pendingDeltaCounter]
  /\ UNCHANGED << pendingCustomComponentCounter, counterOtherVars >>

\* A client calls incrementCustomComponentCounter(customInstanceName).
IncrementCustomComponentCounter(customInstanceName) ==
  /\ countOf(pendingCustomComponentCounter, customInstanceName) < MaxCount
  /\ pendingCustomComponentCounter' =
       incrementCounter(pendingCustomComponentCounter, customInstanceName)
  /\ lastOp' = [op |-> "incrementCustomComponentCounter",
                type |-> customInstanceName, data |-> EmptyObj]
  /\ UNCHANGED << pendingDeltaCounter, counterOtherVars >>

\* A client calls getAndResetCustomComponentCounter(); data is what it
\* returns.
GetAndResetCustomComponentCounter ==
  /\ pendingCustomComponentCounter' = EmptyObj
  /\ lastOp' = [op |-> "getAndResetCustomComponentCounter", type |-> "",
                data |-> pendingCustomComponentCounter]
  /\ UNCHANGED << pendingDeltaCounter, counterOtherVars >>

InitCounters ==
  /\ HostIdle
  /\ WrapperIdle
  /\ MetricsIdle

NextCounters ==
  \/ \E p \in CountedBlockProps : BlockRender(p)
  \/ \E t \in DeltaTypes : IncrementDeltaCounter(t)
  \/ GetAndResetDeltaCounter
  \/ \E n \in CustomInstanceNames : IncrementCustomComponentCounter(n)
  \/ GetAndResetCustomComponentCounter

SpecCounters == InitCounters /\ [][NextCounters]_vars

\* ------------------------------------------------------------------------
\* Properties
\* ------------------------------------------------------------------------
\* The step delivers a guest message of one of the given types.
Delivers(types) == lastOp'.op = "onBackMsg" /\ lastOp'.type \in types

LastPost(q) == q[Len(q)]

\* C1: while COMPONENT_READY has not been received, a SET_WIDGET_VALUE,
\* SET_COMPONENT_VALUE or SET_FRAME_HEIGHT message of the guest is dropped:
\* the widget store, the rerun messages sent, the frame height are unchanged
\* and the instance stays mounted and not ready.
C1_PrematureMessagesDropped ==
  [][ (~componentReady
        /\ Delivers({SET_WIDGET_VALUE, SET_COMPONENT_VALUE, SET_FRAME_HEIGHT}))
      => /\ widgetStates' = widgetStates
         /\ rerunMsgs' = rerunMsgs
         /\ frameHeight' = frameHeight
         /\ posted' = posted
         /\ ~componentReady'
         /\ phase' = "mounted" ]_vars

C1_Witness ==
  /\ ~componentReady
  /\ lastOp.op = "onBackMsg"
  /\ lastOp.type = SET_WIDGET_VALUE
  /\ lastOp.data = [value |-> JsBool(TRUE)]
  /\ lastLog = "Got setWidgetValue before componentReady!"
  /\ widgetStates # << >>

\* C2: as long as the instance is not ready nothing has been posted to the
\* guest iframe, and the payload of the latest render instruction is what
\* the instance holds in pendingRenderArgs/pendingRenderDfs.
C2_NoRenderWhileAwaitingReady ==
  ~componentReady =>
    /\ posted = << >>
    /\ phase # "constructed" =>
         /\ pendingRenderArgs = props.args
         /\ pendingRenderDfs = props.dfs

C2_Witness ==
  /\ ~componentReady
  /\ lastOp.op = "render"
  /\ renderCount >= 3
  /\ pendingRenderArgs = 2
  /\ posted = << >>

\* C3: the COMPONENT_READY that finds the instance not ready makes it ready
\* and posts exactly one RENDER message, whose args and dfs are those of the
\* latest render instruction received before.
C3_FirstReadyFlushesLatest ==
  [][ (~componentReady /\ Delivers({COMPONENT_READY}))
      => /\ componentReady'
         /\ Len(posted') = Len(posted) + 1
         /\ LastPost(posted').type = RENDER
         /\ LastPost(posted').args = props.args
         /\ LastPost(posted').dfs = props.dfs ]_vars

C3_Witness ==
  /\ componentReady
  /\ lastOp.op = "onBackMsg"
  /\ lastOp.type = COMPONENT_READY
  /\ renderCount >= 2
  /\ Len(posted) = 1
  /\ posted[1].args = 2
  /\ posted[1].dfs = 1
\* The data of the delivered message carries the expected API version.
WellFormedReady ==
  lastOp'.data = [apiVersion |-> JsNum(CUSTOM_COMPONENT_API_VERSION)]

\* C4: a COMPONENT_READY received while the instance is already ready posts
\* one more RENDER message and leaves the instance ready, so that k
\* COMPONENT_READY messages result in k RENDER messages.
C4_RepeatedReadyResends ==
  [][ (componentReady /\ Delivers({COMPONENT_READY}) /\ WellFormedReady)
      => /\ componentReady'
         /\ Len(posted') = Len(posted) + 1
         /\ LastPost(posted').type = RENDER ]_vars

\* C5: the RENDER message posted for a COMPONENT_READY received while ready
\* carries the payload of the latest render instruction, also when that
\* instruction was posted directly while ready.
C5_RepeatedReadyCarriesLatest ==
  [][ (componentReady /\ Delivers({COMPONENT_READY}) /\ WellFormedReady)
      => /\ posted' # posted
         /\ LastPost(posted').args = props.args
         /\ LastPost(posted').dfs = props.dfs ]_vars

\* C6: every RENDER message posted to the guest, the one answering
\* COMPONENT_READY included, carries args, dfs and the disabled flag.
C6_RenderMessagesHaveOneShape ==
  \A i \in 1..Len(posted) :
    posted[i].type = RENDER =>
      {"args", "dfs", "disabled"} \subseteq DOMAIN posted[i]

\* C7: while the instance is ready, a render instruction posts exactly one
\* RENDER message with the args, dfs and disabled flag of that instruction,
\* after the messages posted before, and buffers nothing.
C7_ReadyRenderPostsImmediately ==
  [][ (componentReady /\ lastOp'.op = "render")
      => /\ posted' = Append(posted,
                [isStreamlitMessage |-> TRUE, type |-> RENDER,
                 args |-> props'.args, dfs |-> props'.dfs,
                 disabled |-> props'.disabled])
         /\ pendingRenderArgs' = pendingRenderArgs
         /\ pendingRenderDfs' = pendingRenderDfs ]_vars

C7_Witness ==
  /\ componentReady
  /\ lastOp.op = "render"
  /\ Len(posted) = 3
  /\ posted[2].args = 2 /\ posted[2].disabled
  /\ posted[3].args = 1 /\ ~posted[3].disabled
  /\ pendingRenderArgs = EmptyArgs

\* The oneof field of WidgetState that matches a guest value.
MatchingField(type, data) ==
  IF type = SET_COMPONENT_VALUE THEN "jsonValue"
  ELSE IF typeof(data.value) = "boolean" THEN "boolValue"
  ELSE IF typeof(data.value) = "number" THEN "floatValue"
  ELSE "stringValue"

\* The step delivers a value message that the protocol supports.
DeliversValue ==
  \/ /\ Delivers({SET_WIDGET_VALUE})
     /\ "value" \in DOMAIN lastOp'.data
     /\ typeof(lastOp'.data.value) \in {"boolean", "number", "string"}
  \/ /\ Delivers({SET_COMPONENT_VALUE})
     /\ lastOp'.data.dataType = JsStr("json")

\* C8: while the instance is ready, a SET_WIDGET_VALUE with a boolean,
\* number or string value and a SET_COMPONENT_VALUE with dataType json store
\* the value under the id of the instance in the field matching its type,
\* and one rerun message holding the new store is sent.
C8_ValueStoredAndSent ==
  [][ (componentReady /\ DeliversValue)
      => /\ HasId(widgetStates', WidgetId)
         /\ getWidgetStateProto(widgetStates', WidgetId).value
              = MatchingField(lastOp'.type, lastOp'.data)
         /\ rerunMsgs' = Append(rerunMsgs, widgetStates') ]_vars

\* C9: a COMPONENT_READY whose apiVersion is not the expected one does not
\* make the instance ready and posts no RENDER message.
C9_VersionMismatchNotReady ==
  [][ (~componentReady /\ Delivers({COMPONENT_READY}) /\ ~WellFormedReady)
      => /\ ~componentReady'
         /\ posted' = posted ]_vars

\* C10: a SET_FRAME_HEIGHT received while ready sets the frame height to
\* the given value without a render pass: render() is not invoked and no
\* RENDER message is posted.
C10_FrameHeightWithoutRender ==
  [][ (componentReady /\ Delivers({SET_FRAME_HEIGHT})
        /\ "height" \in DOMAIN lastOp'.data)
      => /\ frameHeight' = lastOp'.data.height
         /\ renderCount' = renderCount
         /\ posted' = posted ]_vars

\* ------------------------------------------------------------------------
\* Properties of the WidgetStateManager
\* ------------------------------------------------------------------------
Fields ==
  { "boolValue", "intValue", "floatValue", "stringValue", "stringArrayValue",
    "floatArrayValue", "intArrayValue", "jsonValue", "arrowValue",
    "bytesValue" }

\* The step is a setter call; its field, id, value and source.
IsSet == lastOp'.op = "set"
SetId == lastOp'.data.id
SetField == lastOp'.type
SetVal == lastOp'.data.value

Ids(m) == [i \in 1..Len(m) |-> m[i].id]
UniqueIds(m) == \A i, j \in 1..Len(m) : m[i].id = m[j].id => i = j

\* C11 as stated: after a setter call with fromUi = false the getter of the
\* same variant returns the value that was set, for every variant.
C11_GetReturnsWhatWasSet ==
  [][ (IsSet /\ ~lastOp'.data.fromUi)
      => getValue(SetField, widgetStates', SetId) = SetVal ]_vars

\* C11 amended: after a setter call with fromUi = false the getter of the
\* same variant returns the value that was set, for every variant but JSON;
\* getJsonValue returns the JSON text of the value that was set.
C11_GetReturnsWhatWasSetOrItsJson ==
  [][ (IsSet /\ ~lastOp'.data.fromUi)
      => getValue(SetField, widgetStates', SetId)
           = IF SetField = "jsonValue" THEN JSONstringify(SetVal) ELSE SetVal
     ]_vars

C11_Witness ==
  /\ lastOp.op = "set"
  /\ ~lastOp.data.fromUi
  /\ lastOp.type = "jsonValue"
  /\ lastOp.data.value = JsObj("{foo:1}")
  /\ getJsonValue(widgetStates, WidgetId) = JsStr("{foo:1}")
  /\ Len(widgetStates) = 2
  /\ widgetStates[1].id = OtherId

\* C12: a setter call with fromUi = true hands exactly one message to
\* sendRerunBackMsg, and that message holds the entry just stored; a setter
\* call with fromUi = false sends nothing.
C12_SetterSendsIffFromUi ==
  [][ IsSet =>
        IF lastOp'.data.fromUi
          THEN /\ Len(rerunMsgs') = Len(rerunMsgs) + 1
               /\ SubSeq(rerunMsgs', 1, Len(rerunMsgs)) = rerunMsgs
               /\ HasId(LastPost(rerunMsgs'), SetId)
               /\ getWidgetStateProto(LastPost(rerunMsgs'), SetId).value = SetField
               /\ getValue(SetField, LastPost(rerunMsgs'), SetId)
                    = getValue(SetField, widgetStates', SetId)
          ELSE rerunMsgs' = rerunMsgs ]_vars

C12_Witness ==
  /\ lastOp.op = "set"
  /\ lastOp.data.fromUi
  /\ lastOp.type = "floatArrayValue"
  /\ Len(rerunMsgs) = 1
  /\ getFloatArrayValue(rerunMsgs[1], WidgetId) = JsArr(<< 1, 2 >>)

C14_CleanKeepsActiveOnly ==
  [][ lastOp'.op = "clean" =>
        /\ widgetStates' =
             SelectSeq(widgetStates, LAMBDA e : e.id \in lastOp'.data.active)
        /\ rerunMsgs' = rerunMsgs
        /\ lastOp'.data.active = {} =>
             /\ isEmpty(widgetStates')
             /\ \A id \in StoreIds, f \in Fields :
                  getValue(f, widgetStates', id) = Undefined ]_vars

C14_Witness ==
  /\ lastOp.op = "clean"
  /\ lastOp.data.active = { OtherId }
  /\ widgetStates = << WidgetState(OtherId, "stringValue", JsStr("x")) >>
  /\ Len(rerunMsgs) = 1
  /\ Len(rerunMsgs[1]) = 2
  /\ rerunMsgs[1][1].id = WidgetId

\* C15: a getter for a variant other than the one stored for the id, or for
\* an id that is not stored, returns undefined (and does not throw).
C15_OtherVariantIsUndefined ==
  \A id \in StoreIds \cup { "never_set" }, f \in Fields :
    (~HasId(widgetStates, id) \/ getWidgetStateProto(widgetStates, id).value # f)
      => getValue(f, widgetStates, id) = Undefined

C15_Witness ==
  /\ HasId(widgetStates, WidgetId)
  /\ getWidgetStateProto(widgetStates, WidgetId).value = "intValue"
  /\ getIntValue(widgetStates, WidgetId) = JsNum(7)
  /\ getFloatValue(widgetStates, WidgetId) = Undefined
  /\ ~HasId(widgetStates, OtherId)

\* C16: the store holds one entry per id, and after a setter for one variant
\* only the getter of that variant returns a value for the id, whatever the
\* id held before.
C16_OneVariantPerId ==
  [][ IsSet =>
        /\ UniqueIds(widgetStates')
        /\ getValue(SetField, widgetStates', SetId) # Undefined
        /\ \A f \in Fields \ { SetField } :
             getValue(f, widgetStates', SetId) = Undefined ]_vars

C16_Witness ==
  /\ lastOp.op = "set"
  /\ lastOp.type = "stringValue"
  /\ lastOp.data.id = WidgetId
  /\ Len(rerunMsgs) = 1
  /\ getBoolValue(rerunMsgs[1], WidgetId) = JsBool(TRUE)
  /\ getBoolValue(widgetStates, WidgetId) = Undefined
  /\ getStringValue(widgetStates, WidgetId) = JsStr("a")

\* The leaves of the Block as last rendered.
Leaves == 1..Len(blockProps.elements)
Rendered == ~blockOut.thrown /\ Len(blockOut.nodes) = Len(blockProps.elements)
Flagged(i) == "stale-element" \in blockOut.nodes[i].className
Hidden(i) == blockProps.elements[i].type \in { "empty", "balloons" }

\* What the run state alone says of leaf i: stale under RERUN_REQUESTED,
\* stale under RUNNING when it carries another run id, fresh otherwise.
StaleByRunState(i) ==
  \/ blockProps.reportRunState = RERUN_REQUESTED
  \/ /\ blockProps.reportRunState = RUNNING
     /\ blockProps.elements[i].reportId # blockProps.reportId

\* C17 as stated: element staleness follows the run state; every rendered
\* element is flagged stale under RERUN_REQUESTED, under RUNNING exactly when
\* its run id differs from the active one, and never otherwise.
C17_StalenessFollowsRunState ==
  Rendered => \A i \in Leaves : Flagged(i) <=> StaleByRunState(i)

\* C17 amended: the flag follows the run state for a shown element while the
\* stale indicator is switched on and nothing is in full screen; a hidden
\* element is flagged in addition whenever the run state is RUNNING; with an
\* element in full screen nothing is flagged.
C17_StalenessFollowsRunStateWhenIndicated ==
  Rendered =>
    \A i \in Leaves :
      Flagged(i) <=>
        /\ ~blockOut.fullScreen
        /\ \/ blockProps.showStaleElementIndicator /\ StaleByRunState(i)
           \/ Hidden(i) /\ blockProps.reportRunState = RUNNING

\* A running report with the indicator on: of two shown leaves the one of the
\* earlier run is flagged and the one of the active run is not.
C17_Witness ==
  /\ Rendered
  /\ blockProps.reportRunState = RUNNING
  /\ blockProps.showStaleElementIndicator
  /\ ~blockOut.fullScreen
  /\ Len(blockProps.elements) = 2
  /\ ~Hidden(1) /\ ~Hidden(2)
  /\ blockProps.elements[1].reportId # blockProps.reportId
  /\ blockProps.elements[2].reportId = blockProps.reportId
  /\ Flagged(1) /\ ~Flagged(2)

\* C18 as stated: a leaf with an unrecognized type tag fails only its own
\* subtree; the Block still renders, with one node per leaf, and every
\* sibling of the failing leaf is rendered by its own renderer.
C18_UnknownTagFailsOnlyItsSubtree ==
  (\E i \in Leaves : blockProps.elements[i].type \notin KnownTypes) =>
    /\ Rendered
    /\ \A j \in Leaves :
         blockProps.elements[j].type \in KnownTypes =>
           blockOut.nodes[j].component = dispatchOneOf(blockProps.elements[j].type)

\* The columns of the horizontal Block as last laid out.
Columns == 1..Len(blockProps.weights)
LaidOut == lastOp.op \in { "renderHorizontal", "resize" }
Proportional(i) ==
  blockOut.widths[i] =
    (blockProps.T * blockProps.weights[i]) \div blockProps.horizontal.totalWeight

\* C19 as stated: in a horizontal container of width T, the child of weight
\* w_i out of total W is w_i/W of T wide, and the widths sum to T within 1px
\* per child.
C19_ColumnsShareWidthByWeight ==
  LaidOut =>
    /\ \A i \in Columns : Proportional(i)
    /\ SumOver(Columns, blockOut.widths) <= blockProps.T
    /\ blockProps.T - SumOver(Columns, blockOut.widths) <= Len(blockProps.weights)

\* C19 amended: the same, at a viewport wider than the breakpoint of
\* minViewportForColumns px; at or under the breakpoint a child with at most
\* half of the total weight is at least w_i/W of minViewportForColumns wide.
C19_ColumnsShareWidthByWeightAboveBreakpoint ==
  LaidOut =>
    IF blockProps.viewport > minViewportForColumns
      THEN /\ \A i \in Columns : Proportional(i)
           /\ SumOver(Columns, blockOut.widths) <= blockProps.T
           /\ blockProps.T - SumOver(Columns, blockOut.widths)
                <= Len(blockProps.weights)
      ELSE \A i \in Columns :
             2 * blockProps.weights[i] <= blockProps.horizontal.totalWeight =>
               blockOut.widths[i] >=
                 (blockProps.weights[i] * minViewportForColumns)
                   \div blockProps.horizontal.totalWeight

\* Weights 1, 1, 2 in 700 px at a wide viewport: 175, 175, 350.
C19_Witness ==
  /\ LaidOut
  /\ blockProps.weights = << 1, 1, 2 >>
  /\ blockProps.T = 700
  /\ blockProps.viewport > minViewportForColumns
  /\ blockOut.widths = << 175, 175, 350 >>

\* C20: the instance has a listener registered for its guest window exactly
\* from its mount to its unmount, and a guest message delivered after the
\* unmount reaches no dispatcher: no step taken after the unmount changes the
\* Widget State Store, what was sent, or the state of the instance.
C20_ListenerFromMountToUnmount ==
  /\ [](listener <=> phase = "mounted")
  /\ [][phase = "unmounted" =>
          /\ lastOp'.op = "noListener"
          /\ UNCHANGED << instVars, widgetStates, rerunMsgs, posted,
                          renderCount >>]_vars

\* A ready instance has been unmounted and its guest then sends a value.
C20_Witness ==
  /\ phase = "unmounted"
  /\ componentReady
  /\ ~listener
  /\ lastOp.op = "noListener"
  /\ lastOp.type = SET_WIDGET_VALUE

\* C23: componentReady is a latch; it is false initially, it becomes true
\* only in a step that delivers COMPONENT_READY, and no step resets it.
C23_ComponentReadyIsLatch ==
  /\ ~componentReady
  /\ [][ /\ componentReady => componentReady'
         /\ (~componentReady /\ componentReady') => Delivers({COMPONENT_READY})
     ]_vars

\* A ready instance has received COMPONENT_READY again and is still ready.
C23_Witness ==
  /\ componentReady
  /\ lastOp.op = "onBackMsg"
  /\ lastOp.type = COMPONENT_READY
  /\ lastLog = "Got multiple COMPONENT_READY messages!"

\* The step delivers a SET_WIDGET_VALUE without value or a SET_FRAME_HEIGHT
\* without height.
DeliversWithoutField ==
  \/ Delivers({SET_WIDGET_VALUE}) /\ "value" \notin DOMAIN lastOp'.data
  \/ Delivers({SET_FRAME_HEIGHT}) /\ "height" \notin DOMAIN lastOp'.data

\* The state was produced by such a message.
DeliveredWithoutField ==
  /\ lastOp.op = "onBackMsg"
  /\ \/ lastOp.type = SET_WIDGET_VALUE /\ "value" \notin DOMAIN lastOp.data
     \/ lastOp.type = SET_FRAME_HEIGHT /\ "height" \notin DOMAIN lastOp.data

\* C24: while ready, a guest message without its required field is discarded:
\* store, frame height and ready flag are unchanged and no rerun message is
\* sent; a well-formed message that follows is processed: its boolean, number
\* or string value is stored and sent, its height becomes the frame height.
C24_MissingFieldDiscarded ==
  [][ /\ (componentReady /\ DeliversWithoutField)
          => /\ widgetStates' = widgetStates
             /\ frameHeight' = frameHeight
             /\ componentReady'
             /\ rerunMsgs' = rerunMsgs
      /\ (componentReady /\ DeliveredWithoutField
            /\ Delivers({SET_WIDGET_VALUE})
            /\ "value" \in DOMAIN lastOp'.data
            /\ typeof(lastOp'.data.value) \in {"boolean", "number", "string"})
          => /\ getValue(MatchingField(lastOp'.type, lastOp'.data),
                         widgetStates', WidgetId) = lastOp'.data.value
             /\ rerunMsgs' = Append(rerunMsgs, widgetStates')
      /\ (componentReady /\ DeliveredWithoutField
            /\ Delivers({SET_FRAME_HEIGHT})
            /\ "height" \in DOMAIN lastOp'.data)
          => frameHeight' = lastOp'.data.height
    ]_vars

\* A ready instance with a frame height and a stored value has just dropped
\* a SET_FRAME_HEIGHT without height.
C24_Witness ==
  /\ componentReady
  /\ lastOp.op = "onBackMsg"
  /\ lastOp.type = SET_FRAME_HEIGHT
  /\ lastOp.data = EmptyObj
  /\ lastLog = "handleSetFrameHeight: missing 'height' prop"
  /\ frameHeight = JsNum(50)
  /\ HasId(widgetStates, WidgetId)

\* The step delivers a SET_WIDGET_VALUE whose value has an unsupported type,
\* or a message of a type that is not part of the protocol.
DeliversUnsupported ==
  \/ /\ Delivers({SET_WIDGET_VALUE})
     /\ "value" \in DOMAIN lastOp'.data
     /\ typeof(lastOp'.data.value) \notin {"boolean", "number", "string"}
  \/ /\ lastOp'.op = "onBackMsg"
     /\ lastOp'.type \notin {COMPONENT_READY, SET_WIDGET_VALUE,
                             SET_COMPONENT_VALUE, SET_FRAME_HEIGHT}

\* C28: while ready, a SET_WIDGET_VALUE with a value of an unsupported type
\* and a message with an unrecognized type tag are ignored: store, frame
\* height and ready flag are unchanged, no rerun message and no RENDER
\* message is sent.
C28_UnsupportedIgnored ==
  [][ (componentReady /\ DeliversUnsupported)
      => /\ widgetStates' = widgetStates
         /\ frameHeight' = frameHeight
         /\ componentReady'
         /\ rerunMsgs' = rerunMsgs
         /\ posted' = posted ]_vars

\* A ready instance holding a value has just ignored an object value.
C28_Witness ==
  /\ componentReady
  /\ lastOp.op = "onBackMsg"
  /\ lastOp.type = SET_WIDGET_VALUE
  /\ lastOp.data = [value |-> JsObj("{foo:1}")]
  /\ lastLog = "ComponentInstance: unsupported value type!"
  /\ HasId(widgetStates, WidgetId)

\* C22: whatever the order of the setter calls of the components, after a
\* setter call for an id the entry of that id holds the value of this call
\* alone, in the variant of this call and in no other, and the entry of every
\* other id is what it was.
C22_LastWriteWinsPerId ==
  [][ IsSet =>
        /\ getWidgetStateProto(widgetStates', SetId).value = SetField
        /\ getValue(SetField, widgetStates', SetId)
             = IF SetField = "jsonValue" THEN JSONstringify(SetVal) ELSE SetVal
        /\ \A f \in Fields \ { SetField } :
             getValue(f, widgetStates', SetId) = Undefined
        /\ \A j \in StoreIds \ { SetId } :
             getWidgetStateProto(widgetStates', j)
               = getWidgetStateProto(widgetStates, j) ]_vars

\* The entry of one widget was written after the entry of the other widget,
\* which is still there.
C22_Witness ==
  /\ lastOp.op = "set"
  /\ lastOp.data.id = WidgetId
  /\ lastOp.type = "stringValue"
  /\ Len(widgetStates) = 2
  /\ getStringValue(widgetStates, OtherId) = JsStr("x")
  /\ getStringValue(widgetStates, WidgetId) = JsStr("a")

IsTrigger == lastOp'.op = "setTrigger"
HoldsTrigger(m, id) ==
  /\ HasId(m, id)
  /\ getWidgetStateProto(m, id) = WidgetState(id, "triggerValue", JsBool(TRUE))
NoTrigger(m) == \A i \in 1..Len(m) : m[i].value # "triggerValue"

Receives == lastOp'.op = "onMessageEvent"

\* The message is marked as a protocol message.
Marked(data) ==
  "isStreamlitMessage" \in DOMAIN data /\ data.isStreamlitMessage = TRUE

\* C21: a window message whose isStreamlitMessage is absent or not true is
\* rejected: the state of the receiver is unchanged and no render happens.
C21_UnmarkedMessagesRejected ==
  [][ (Receives /\ ~Marked(lastOp'.data))
      => UNCHANGED << readyForFirstRender, renderArgs, renderDisabled,
                      pluginError, wrapperRenders >> ]_vars

\* The step hands a RENDER message of the host to the wrapper.
ReceivesRender == Receives /\ Marked(lastOp'.data) /\ lastOp'.type = RENDER

\* The number of PLUGIN_READY messages among the posts to the parent.
ReadySent ==
  Cardinality({ i \in 1..Len(parentPosted) : parentPosted[i].type = PLUGIN_READY })

\* C30: the wrapper sends its ready message once, on mount; it does not
\* render the wrapped component before the first RENDER message; from the
\* first RENDER on readyForFirstRender stays true, and the wrapped component,
\* whenever it is rendered, has the args of the most recent RENDER message,
\* with an empty object in the place of null args.
C30_WrapperRendersLatestArgs ==
  /\ [](ReadySent = IF wrapperPhase = "constructed" THEN 0 ELSE 1)
  /\ [](~readyForFirstRender => wrapperRender.view # "WrappedComponent")
  /\ [][ /\ readyForFirstRender => readyForFirstRender'
         /\ ReceivesRender =>
              /\ readyForFirstRender'
              /\ renderArgs' =
                   IF "args" \in DOMAIN lastOp'.data /\ lastOp'.data.args # JsNull
                     THEN lastOp'.data.args ELSE JsObj("{}")
              /\ ~pluginError' => /\ wrapperRender'.view = "WrappedComponent"
                                  /\ wrapperRender'.args = renderArgs'
         /\ ~(Receives /\ lastOp'.type = RENDER) =>
              /\ renderArgs' = renderArgs
              /\ readyForFirstRender' = readyForFirstRender ]_vars

\* The wrapped component shows the args of the second of two RENDER
\* messages and has sent a value.
C30_Witness ==
  /\ wrapperPhase = "mounted"
  /\ wrapperRender.view = "WrappedComponent"
  /\ wrapperRender.args = JsObj("{a:2}")
  /\ wrapperRenders = 3
  /\ Len(parentPosted) = 2
  /\ parentPosted[1].type = PLUGIN_READY

\* ------------------------------------------------------------------------
\* Properties of the MetricsManager
\* ------------------------------------------------------------------------
\* The number of leaves of the given type in the Block of the next state.
LeavesOfType(t) ==
  Cardinality({ i \in 1..Len(blockProps'.elements) :
                  blockProps'.elements[i].type = t })

\* C27: rendering a leaf element adds one to the usage counter of its type,
\* rendering a custom component instance adds one to the counter of its
\* name; an increment adds one to the count of its name and to no other;
\* getAndReset returns the counts since the previous reset and leaves the
\* counter empty.
C27_RenderCountsElements ==
  [][ /\ lastOp'.op = "blockRender" =>
           /\ \A t \in DeltaTypes :
                countOf(pendingDeltaCounter', t)
                  = countOf(pendingDeltaCounter, t) + LeavesOfType(t)
           /\ \A n \in CustomInstanceNames :
                countOf(pendingCustomComponentCounter', n)
                  = countOf(pendingCustomComponentCounter, n)
                      + LeavesOfType("componentInstance")
      /\ lastOp'.op = "incrementDeltaCounter" =>
           \A t \in DeltaTypes :
             countOf(pendingDeltaCounter', t)
               = countOf(pendingDeltaCounter, t)
                   + (IF t = lastOp'.type THEN 1 ELSE 0)
      /\ lastOp'.op = "incrementCustomComponentCounter" =>
           \A n \in CustomInstanceNames :
             countOf(pendingCustomComponentCounter', n)
               = countOf(pendingCustomComponentCounter, n)
                   + (IF n = lastOp'.type THEN 1 ELSE 0)
      /\ lastOp'.op = "getAndResetDeltaCounter" =>
           /\ lastOp'.data = pendingDeltaCounter
           /\ DOMAIN pendingDeltaCounter' = {}
      /\ lastOp'.op = "getAndResetCustomComponentCounter" =>
           /\ lastOp'.data = pendingCustomComponentCounter
           /\ DOMAIN pendingCustomComponentCounter' = {}
    ]_vars

\* The step is a call of initialize with the given gatherUsageStats.
Initializes(g) ==
  lastOp'.op = "initialize" /\ lastOp'.data.gatherUsageStats = g

\* C29: initialize with gatherUsageStats = false sends nothing, and no event
\* enqueued while the metrics are switched off is sent; initialize with
\* gatherUsageStats = true sends every event enqueued before it, once and
\* in the order of the enqueue calls.
C29_NoEventsWithoutConsent ==
  [][ /\ Initializes(FALSE) => tracked' = tracked
      /\ (lastOp'.op = "enqueue" /\ initialized /\ ~actuallySendMetrics)
           => tracked' = tracked
      /\ Initializes(TRUE) =>
           /\ Len(tracked') = Len(tracked) + Len(pendingEvents)
           /\ SubSeq(tracked', 1, Len(tracked)) = tracked
           /\ \A i \in 1..Len(pendingEvents) :
                /\ tracked'[Len(tracked) + i].evName = pendingEvents[i][1]
                /\ tracked'[Len(tracked) + i].evData = pendingEvents[i][2]
           /\ pendingEvents' = << >> ]_vars

====
